---- MODULE Spec2Model ----
(***************************************************************************)
(* Model of github.com/pinterb/common: the signals.Handler (signal-driven  *)
(* lifecycle coordinator) and the server.Server shell that owns one.       *)
(*                                                                         *)
(* One Handler is modelled.  It is either a standalone Handler built with  *)
(* signals.NewHandler(log, receivers...) (srv = "none"), or the Handler    *)
(* that server.New builds with no receivers and keeps in Server.handler.   *)
(* Goroutines are interleaved one statement (or one blocking call) at a    *)
(* time.  An unrecovered panic ends the process: no action is enabled in a *)
(* panicked state.  OS signals are modelled from signal.Notify on.         *)
(***************************************************************************)
EXTENDS Integers, Sequences, FiniteSets, TLC

\* ---------------------------------------------------------------- bounds
MaxReceivers == 2   \* longest receivers list given to NewHandler
MaxStops     == 2   \* calls of Stop made by the callers
MaxSignals   == 2   \* OS signals delivered to the process
MaxInflight  == 1   \* requests in flight on each protocol server
MaxTimeout   == 1   \* longest cfg.ServerGracefulShutdownTimeout, in ticks

\* ------------------------------------------------------ program constants
SigChanCap == 1     \* sigs := make(chan os.Signal, 1)

SIGINT  == "SIGINT"
SIGQUIT == "SIGQUIT"
SIGTERM == "SIGTERM"
\* signal.Notify(sigs, syscall.SIGINT, syscall.SIGQUIT, syscall.SIGTERM)
NotifiedSignals == {SIGINT, SIGQUIT, SIGTERM}

\* The values a SignalReceiver's Stop() returns: nil or an error.
StopResults == {"nil", "err"}

\* The subsystems a caller may register (any of them, repeats allowed).
Subsystems == 1..MaxReceivers

\* h.log.Log("sighandler", ...) messages
StopNotice == "=== Handler.Stop()'d ==="
TermNotice == "=== received SIGINT/SIGTERM ==="
QuitNotice == "=== received SIGQUIT ==="
DumpStart  == "*** goroutine dump...start ***"
DumpBody   == "string(buf[:stacklen])"
DumpEnd    == "*** goroutine dump...end ***"

VARIABLES
    \* --- signals.Handler
    receivers,    \* h.receivers: sequence of subsystems, registration order
    quit,         \* h.quit: "open" or "closed"
    log,          \* what h.log has been given, in order
    \* --- Handler.Loop
    pc,           \* "idle", "select", "dump", "fanout", "returned"
    subscribed,   \* signal.Notify has been called
    sigs,         \* the buffered channel sigs
    qi,           \* next entry of the SIGQUIT case to log
    idx,          \* next index of the range over h.receivers
    stopCalls,    \* history: <<subsystem, result>> of each subsystem.Stop()
    recvd,        \* history: the signals Loop took from sigs
    cause,        \* history: the select case Loop returned from
    bothPending,  \* history: a select ran with both ways out of it ready
    \* --- callers and the environment
    panicked,     \* an unrecovered panic ended the process
    nStops,       \* Stop calls made
    nSignals,     \* OS signals delivered
    stopAfterRun, \* history: Server.Stop was called after Server.Run
    stopFirst,    \* history: Stop was called before Loop was entered
    termSent,     \* history: a SIGINT or SIGTERM was delivered
    \* --- server.Server
    srv,          \* "none", "unbuilt", "failed", "built"
    httpListener, \* "none", "open", "closed"
    grpcListener,
    timeout,      \* cfg.ServerGracefulShutdownTimeout, in ticks
    runPc,        \* "idle", "http", "grpc", "loop", "gstop", "returned"
    httpTask,     \* "unstarted", "serving", "exited"
    grpcTask,
    httpSrv,      \* "up", "shutdown"
    grpcSrv,      \* "up", "draining", "stopped"
    httpInflight, \* HTTP requests in flight
    rpcInflight,  \* RPCs in flight
    shutPc,       \* "idle", "drain", "grpcstop", "done"
    drainResult,  \* what httpServer.Shutdown(ctx) returned
    grpcStopCalled, \* history: Shutdown called s.GRPC.Stop()
    elapsed       \* ticks since Shutdown made its context

loopVars  == <<pc, subscribed, sigs, qi, idx, stopCalls, recvd, cause,
               bothPending, log>>
coordVars == <<receivers, quit>>
envVars   == <<panicked, nStops, nSignals, stopAfterRun, stopFirst, termSent>>
lsnVars   == <<srv, httpListener, grpcListener, timeout>>
runVars   == <<runPc, httpTask, grpcTask>>
srvVars   == <<httpSrv, grpcSrv, httpInflight, rpcInflight>>
shutVars  == <<shutPc, drainResult, grpcStopCalled, elapsed>>
vars == <<loopVars, coordVars, envVars, lsnVars, runVars, srvVars, shutVars>>

RECURSIVE SeqsUpTo(_, _)
SeqsUpTo(S, n) ==
    IF n = 0 THEN {<<>>}
    ELSE LET shorter == SeqsUpTo(S, n - 1)
         IN  shorter \cup {Append(s, x) : s \in shorter, x \in S}

\* The process is running: no goroutine has panicked.
Alive == ~panicked

\* ------------------------------------------------------------------ Init
\* NewHandler: the receivers as given, a fresh open quit channel.
NewHandler(rs) ==
    /\ receivers = rs
    /\ quit = "open"

Init ==
    /\ srv \in {"none", "unbuilt"}
    /\ \E rs \in SeqsUpTo(Subsystems, MaxReceivers) :
          /\ srv = "unbuilt" => rs = <<>>
          /\ NewHandler(rs)
    /\ log = <<>>
    /\ pc = "idle" /\ subscribed = FALSE /\ sigs = <<>>
    /\ qi = 0 /\ idx = 0 /\ stopCalls = <<>> /\ recvd = <<>> /\ cause = "none"
    /\ bothPending = FALSE
    /\ panicked = FALSE /\ nStops = 0 /\ nSignals = 0 /\ stopAfterRun = FALSE
    /\ stopFirst = FALSE /\ termSent = FALSE
    /\ httpListener = "none" /\ grpcListener = "none" /\ timeout = 0
    /\ runPc = "idle" /\ httpTask = "unstarted" /\ grpcTask = "unstarted"
    /\ httpSrv = "up" /\ grpcSrv = "up"
    /\ httpInflight = 0 /\ rpcInflight = 0
    /\ shutPc = "idle" /\ drainResult = "none" /\ grpcStopCalled = FALSE
    /\ elapsed = 0

\* ------------------------------------------------------- signals.Handler

\* close(h.quit): closing a closed channel panics.
CloseQuit_LostIfNoWaiter ==
    /\ quit' = IF pc = "select" THEN "closed" ELSE quit
    /\ panicked' = panicked

CloseQuit_Guarded ==
    /\ quit' = "closed"
    /\ panicked' = panicked

CloseQuit ==
    /\ quit' = "closed"
    /\ panicked' = (quit = "closed")

\* func (h *Handler) Stop(), called on a standalone Handler.
HandlerStop ==
    /\ Alive /\ srv = "none"
    /\ nStops < MaxStops
    /\ nStops' = nStops + 1
    /\ CloseQuit
    /\ stopFirst' = (stopFirst \/ pc = "idle")
    /\ UNCHANGED <<loopVars, receivers, nSignals, stopAfterRun, termSent,
                   lsnVars, runVars, srvVars, shutVars>>

\* The OS delivers a signal the process is subscribed to.  Package signal
\* does not block sending to sigs: a signal that finds the buffer full is
\* dropped.
Deliver(s) ==
    /\ Alive /\ subscribed
    /\ nSignals < MaxSignals
    /\ nSignals' = nSignals + 1
    /\ sigs' = IF Len(sigs) < SigChanCap THEN Append(sigs, s) ELSE sigs
    /\ termSent' = (termSent \/ s \in {SIGINT, SIGTERM})
    /\ UNCHANGED <<pc, subscribed, qi, idx, stopCalls, recvd, cause,
                   bothPending, log, coordVars, panicked, nStops, stopAfterRun,
                   stopFirst,
                   lsnVars, runVars, srvVars, shutVars>>

DeliverSignal == \E s \in NotifiedSignals : Deliver(s)

\* Loop, up to the for: make the channel, subscribe, allocate buf.
LoopEnter ==
    /\ pc = "idle"
    /\ pc' = "select"
    /\ subscribed' = TRUE
    /\ UNCHANGED <<sigs, qi, idx, stopCalls, recvd, cause, bothPending, log>>

\* SignalHandlerLoop, or Loop called on a standalone Handler.
HandlerLoop ==
    /\ Alive /\ srv = "none"
    /\ LoopEnter
    /\ UNCHANGED <<coordVars, envVars, lsnVars, runVars, srvVars, shutVars>>

\* Both ways out of the select are ready: h.quit is closed and sigs holds a
\* SIGINT or a SIGTERM.  The select then takes either case.
BothReady ==
    /\ quit = "closed"
    /\ sigs # <<>> /\ Head(sigs) \in {SIGINT, SIGTERM}

\* case <-h.quit: log and return.
LoopStopped_NoReturn ==
    /\ pc = "select" /\ quit = "closed"
    /\ log' = Append(log, StopNotice)
    /\ cause' = "stop"
    /\ bothPending' = (bothPending \/ BothReady)
    /\ UNCHANGED <<pc, subscribed, sigs, qi, idx, stopCalls, recvd>>

LoopStopped_FanOut ==
    /\ pc = "select" /\ quit = "closed"
    /\ log' = Append(log, StopNotice)
    /\ pc' = "fanout" /\ idx' = 1
    /\ cause' = "stop"
    /\ bothPending' = (bothPending \/ BothReady)
    /\ UNCHANGED <<subscribed, sigs, qi, stopCalls, recvd>>

LoopStopped ==
    /\ pc = "select" /\ quit = "closed"
    /\ log' = Append(log, StopNotice)
    /\ pc' = "returned"
    /\ cause' = "stop"
    /\ bothPending' = (bothPending \/ BothReady)
    /\ UNCHANGED <<subscribed, sigs, qi, idx, stopCalls, recvd>>

\* case sig := <-sigs: the switch on sig, up to the first statement of the
\* case taken.  In the SIGQUIT case that is runtime.Stack(buf, true).
LoopRecv ==
    /\ pc = "select" /\ sigs # <<>>
    /\ LET sig == Head(sigs) IN
          /\ sigs' = Tail(sigs)
          /\ recvd' = Append(recvd, sig)
          /\ IF sig \in {SIGINT, SIGTERM}
             THEN /\ log' = Append(log, TermNotice)
                  /\ pc' = "fanout" /\ idx' = 1 /\ qi' = qi
                  /\ cause' = "signal"
             ELSE /\ pc' = "dump" /\ qi' = 1
                  /\ UNCHANGED <<log, idx, cause>>
    /\ bothPending' = (bothPending \/ BothReady)
    /\ UNCHANGED <<subscribed, stopCalls>>

\* The h.log.Log calls of the SIGQUIT case, in order.
QuitEntries_NoNotice == <<DumpStart, DumpBody, DumpEnd>>

QuitEntries == <<QuitNotice, DumpStart, DumpBody, DumpEnd>>

\* Where Loop goes after the SIGQUIT case: round the for again.
AfterQuit_Return == "returned"

AfterQuit == "select"

\* One h.log.Log call of the SIGQUIT case.
LoopDump ==
    /\ pc = "dump"
    /\ log' = Append(log, QuitEntries[qi])
    /\ IF qi = Len(QuitEntries)
       THEN pc' = AfterQuit /\ qi' = 0
       ELSE pc' = pc /\ qi' = qi + 1
    /\ UNCHANGED <<subscribed, sigs, idx, stopCalls, recvd, cause, bothPending>>

\* The range over h.receivers: the result of subsystem.Stop() is dropped.
NextReceiver_RetryOnErr(i, res) ==
    IF res = "err" THEN i ELSE i + 1

NextReceiver_AbortOnErr(i, res) ==
    IF res = "err" THEN Len(receivers) + 1 ELSE i + 1

NextReceiver(i, res) == i + 1

\* subsystem.Stop() on the next receiver.
LoopFanOut ==
    /\ pc = "fanout" /\ idx <= Len(receivers)
    /\ \E res \in StopResults :
          /\ stopCalls' = Append(stopCalls, <<receivers[idx], res>>)
          /\ idx' = NextReceiver(idx, res)
    /\ UNCHANGED <<pc, subscribed, sigs, qi, recvd, cause, bothPending, log>>

\* The range is over: return.
LoopReturn ==
    /\ pc = "fanout" /\ idx > Len(receivers)
    /\ pc' = "returned"
    /\ UNCHANGED <<subscribed, sigs, qi, idx, stopCalls, recvd, cause,
                   bothPending, log>>

\* One step of the goroutine that runs Loop.
LoopBody == LoopStopped \/ LoopRecv \/ LoopDump \/ LoopFanOut \/ LoopReturn

Loop ==
    /\ Alive
    /\ LoopBody
    /\ UNCHANGED <<coordVars, envVars, lsnVars, runVars, srvVars, shutVars>>

\* --------------------------------------------------------- server.Server

New_IgnoresGRPCBindError ==
    /\ Alive /\ srv = "unbuilt"
    /\ timeout' \in 0..MaxTimeout
    /\ \E httpFree \in BOOLEAN, grpcFree \in BOOLEAN :
          IF ~httpFree
          THEN /\ srv' = "failed"
               /\ UNCHANGED <<httpListener, grpcListener>>
          ELSE /\ httpListener' = "open"
               /\ srv' = "built"
               /\ grpcListener' = IF grpcFree THEN "open" ELSE grpcListener
    /\ UNCHANGED <<loopVars, coordVars, envVars, runVars, srvVars, shutVars>>

\* New: bind the HTTP listener, then the gRPC listener; either net.Listen
\* may fail.  Then build the servers and the Handler (no receivers), and
\* keep cfg, whose graceful-shutdown timeout is any duration.
New ==
    /\ Alive /\ srv = "unbuilt"
    /\ timeout' \in 0..MaxTimeout
    /\ \E httpFree \in BOOLEAN, grpcFree \in BOOLEAN :
          IF ~httpFree
          THEN /\ srv' = "failed"
               /\ UNCHANGED <<httpListener, grpcListener>>
          ELSE /\ httpListener' = "open"
               /\ IF ~grpcFree
                  THEN srv' = "failed" /\ grpcListener' = grpcListener
                  ELSE srv' = "built" /\ grpcListener' = "open"
    /\ UNCHANGED <<loopVars, coordVars, envVars, runVars, srvVars, shutVars>>

\* func (s *Server) Stop(): s.handler.Stop().
ServerStop ==
    /\ Alive /\ srv = "built"
    /\ nStops < MaxStops
    /\ nStops' = nStops + 1
    /\ CloseQuit
    /\ stopAfterRun' = (stopAfterRun \/ runPc # "idle")
    /\ stopFirst' = (stopFirst \/ pc = "idle")
    /\ UNCHANGED <<loopVars, receivers, nSignals, termSent,
                   lsnVars, runVars, srvVars, shutVars>>

\* Run: go s.httpServer.Serve(s.httpListener)
RunServeHTTP ==
    /\ runPc = "idle"
    /\ runPc' = "http"
    /\ httpTask' = "serving"
    /\ UNCHANGED <<grpcTask, loopVars, srvVars>>

\* Run: go s.GRPC.Serve(s.grpcListener); defer s.GRPC.GracefulStop()
RunServeGRPC ==
    /\ runPc = "http"
    /\ runPc' = "grpc"
    /\ grpcTask' = "serving"
    /\ UNCHANGED <<httpTask, loopVars, srvVars>>

\* Run: s.handler.Loop() is entered.
RunLoop ==
    /\ runPc = "grpc"
    /\ runPc' = "loop"
    /\ LoopEnter
    /\ UNCHANGED <<httpTask, grpcTask, srvVars>>

\* Run: Loop has returned; the deferred s.GRPC.GracefulStop() starts:
\* the server takes no new RPC and waits for those in flight.
RunGracefulStop ==
    /\ runPc = "loop" /\ pc = "returned"
    /\ runPc' = "gstop"
    /\ grpcSrv' = IF grpcSrv = "up" THEN "draining" ELSE grpcSrv
    /\ UNCHANGED <<httpTask, grpcTask, loopVars, httpSrv, httpInflight, rpcInflight>>

\* Run: GracefulStop returns (no RPC in flight, or the server was stopped)
\* and Run returns to its caller.
RunReturn ==
    /\ runPc = "gstop"
    /\ rpcInflight = 0 \/ grpcSrv = "stopped"
    /\ runPc' = "returned"
    /\ grpcSrv' = "stopped"
    /\ UNCHANGED <<httpTask, grpcTask, loopVars, httpSrv, httpInflight, rpcInflight>>

RunBody_ShutsHTTP ==
    \/ RunServeHTTP \/ RunServeGRPC \/ RunLoop \/ RunGracefulStop
    \/ /\ runPc = "gstop"
       /\ rpcInflight = 0 \/ grpcSrv = "stopped"
       /\ runPc' = "returned"
       /\ grpcSrv' = "stopped"
       /\ httpSrv' = "shutdown"
       /\ UNCHANGED <<httpTask, grpcTask, loopVars, httpInflight, rpcInflight>>

RunBody_LoopFirst ==
    \/ /\ runPc = "idle" /\ runPc' = "loop" /\ LoopEnter
       /\ UNCHANGED <<httpTask, grpcTask, srvVars>>
    \/ RunGracefulStop
    \/ RunReturn

RunBody_ReturnOnServeFail ==
    \/ RunServeHTTP \/ RunServeGRPC \/ RunLoop \/ RunGracefulStop \/ RunReturn
    \/ /\ runPc = "loop" /\ "exited" \in {httpTask, grpcTask}
       /\ runPc' = "returned"
       /\ UNCHANGED <<httpTask, grpcTask, loopVars, srvVars>>

\* One step of the goroutine that called Run.
RunBody == RunServeHTTP \/ RunServeGRPC \/ RunLoop \/ RunGracefulStop \/ RunReturn

\* func (s *Server) Run()
Run ==
    /\ Alive /\ srv = "built"
    /\ RunBody
    /\ UNCHANGED <<coordVars, envVars, lsnVars, shutVars>>

\* The goroutine of go s.httpServer.Serve(s.httpListener): Serve returns,
\* with an accept error or because the server was shut down; its result
\* is dropped.  Serve closes the listener on its way out.
HTTPServeExit ==
    /\ Alive /\ httpTask = "serving"
    /\ httpTask' = "exited"
    /\ httpListener' = "closed"
    /\ UNCHANGED <<runPc, grpcTask, srv, grpcListener, timeout,
                   loopVars, coordVars, envVars, srvVars, shutVars>>

\* The goroutine of go s.GRPC.Serve(s.grpcListener): Serve returns.
GRPCServeExit ==
    /\ Alive /\ grpcTask = "serving"
    /\ grpcTask' = "exited"
    /\ grpcListener' = "closed"
    /\ UNCHANGED <<runPc, httpTask, srv, httpListener, timeout,
                   loopVars, coordVars, envVars, srvVars, shutVars>>

\* The serving HTTP server accepts a request.
HTTPAccept ==
    /\ Alive
    /\ httpTask = "serving" /\ httpSrv = "up"
    /\ httpInflight < MaxInflight
    /\ httpInflight' = httpInflight + 1
    /\ UNCHANGED <<httpSrv, grpcSrv, rpcInflight,
                   loopVars, coordVars, envVars, lsnVars, runVars, shutVars>>

\* An HTTP request in flight finishes.
HTTPDone ==
    /\ Alive
    /\ httpInflight > 0
    /\ httpInflight' = httpInflight - 1
    /\ UNCHANGED <<httpSrv, grpcSrv, rpcInflight,
                   loopVars, coordVars, envVars, lsnVars, runVars, shutVars>>

\* The serving gRPC server accepts an RPC.
RPCAccept ==
    /\ Alive
    /\ grpcTask = "serving" /\ grpcSrv = "up"
    /\ rpcInflight < MaxInflight
    /\ rpcInflight' = rpcInflight + 1
    /\ UNCHANGED <<httpSrv, grpcSrv, httpInflight,
                   loopVars, coordVars, envVars, lsnVars, runVars, shutVars>>

\* An RPC in flight finishes.
RPCDone ==
    /\ Alive
    /\ rpcInflight > 0
    /\ rpcInflight' = rpcInflight - 1
    /\ UNCHANGED <<httpSrv, grpcSrv, httpInflight,
                   loopVars, coordVars, envVars, lsnVars, runVars, shutVars>>

\* What s.httpServer.Shutdown(ctx) can return now.  With no request in
\* flight: nil, or the error of closing the listeners.  With requests in
\* flight it waits, and returns the context's error when the deadline of
\* context.WithTimeout is reached.
DrainResults_NoDeadline ==
    IF httpInflight = 0 THEN {"nil", "err"} ELSE {}

DrainResults ==
    IF httpInflight = 0 THEN {"nil", "err"}
    ELSE IF elapsed >= timeout THEN {"timeout"}
    ELSE {}

\* Shutdown: where it goes with the result of s.httpServer.Shutdown(ctx),
\* which it drops.
AfterDrain_ReturnOnErr(res) == IF res = "nil" THEN "grpcstop" ELSE "failed"

AfterDrain(res) == "grpcstop"

\* Shutdown: context.WithTimeout, and s.httpServer.Shutdown(ctx) is called:
\* the HTTP server takes no new request.
ShutdownBegin_WaitsForRun ==
    /\ shutPc = "idle"
    /\ runPc = "returned"
    /\ shutPc' = "drain"
    /\ httpSrv' = "shutdown"
    /\ UNCHANGED <<drainResult, grpcStopCalled, elapsed,
                   grpcSrv, httpInflight, rpcInflight>>

ShutdownBegin ==
    /\ shutPc = "idle"
    /\ shutPc' = "drain"
    /\ httpSrv' = "shutdown"
    /\ UNCHANGED <<drainResult, grpcStopCalled, elapsed,
                   grpcSrv, httpInflight, rpcInflight>>

\* Shutdown: s.httpServer.Shutdown(ctx) returns.
ShutdownDrain ==
    /\ shutPc = "drain"
    /\ \E res \in DrainResults :
          /\ drainResult' = res
          /\ shutPc' = AfterDrain(res)
    /\ UNCHANGED <<grpcStopCalled, elapsed, srvVars>>

\* Shutdown: s.GRPC.Stop() closes every connection; Shutdown returns.
ShutdownGRPCStop_Graceful ==
    /\ shutPc = "grpcstop"
    /\ rpcInflight = 0
    /\ shutPc' = "done"
    /\ grpcStopCalled' = TRUE
    /\ grpcSrv' = "stopped"
    /\ rpcInflight' = 0
    /\ UNCHANGED <<drainResult, elapsed, httpSrv, httpInflight>>

ShutdownGRPCStop ==
    /\ shutPc = "grpcstop"
    /\ shutPc' = "done"
    /\ grpcStopCalled' = TRUE
    /\ grpcSrv' = "stopped"
    /\ rpcInflight' = 0
    /\ UNCHANGED <<drainResult, elapsed, httpSrv, httpInflight>>

ShutdownBody == ShutdownBegin \/ ShutdownDrain \/ ShutdownGRPCStop

\* func (s *Server) Shutdown()
Shutdown ==
    /\ Alive /\ srv = "built"
    /\ ShutdownBody
    /\ UNCHANGED <<loopVars, coordVars, envVars, lsnVars, runVars>>

\* Time passes while s.httpServer.Shutdown(ctx) waits, that is while it has
\* nothing to return: one tick.  (The time a call takes that does not wait
\* is not counted.)
Tick ==
    /\ Alive /\ srv = "built"
    /\ shutPc = "drain"
    /\ DrainResults = {}
    /\ elapsed <= MaxTimeout
    /\ elapsed' = elapsed + 1
    /\ UNCHANGED <<shutPc, drainResult, grpcStopCalled,
                   loopVars, coordVars, envVars, lsnVars, runVars, srvVars>>

\* --------------------------------------------------------- specification
Next ==
    \/ HandlerStop
    \/ HandlerLoop
    \/ DeliverSignal
    \/ Loop
    \/ New
    \/ ServerStop
    \/ Run
    \/ HTTPServeExit
    \/ GRPCServeExit
    \/ HTTPAccept
    \/ HTTPDone
    \/ RPCAccept
    \/ RPCDone
    \/ Shutdown
    \/ Tick

Spec == Init /\ [][Next]_vars

\* The Go scheduler runs every runnable goroutine: the goroutine in Loop,
\* the one in Run and the one in Shutdown each take their next step, and a
\* request in flight finishes; time passes.  Whether a caller calls Run,
\* Stop or Shutdown at all, and whether a signal is delivered, is left open.
FairSpec ==
    /\ Spec
    /\ WF_vars(Loop)
    /\ WF_vars(runPc # "idle" /\ Run)
    /\ WF_vars(shutPc # "idle" /\ Shutdown)
    /\ WF_vars(HTTPDone)
    /\ WF_vars(RPCDone)
    /\ WF_vars(Tick)

TypeOK ==
    /\ receivers \in SeqsUpTo(Subsystems, MaxReceivers)
    /\ quit \in {"open", "closed"}
    /\ pc \in {"idle", "select", "dump", "fanout", "returned"}
    /\ subscribed \in BOOLEAN
    /\ Len(sigs) <= SigChanCap
    /\ \A i \in 1..Len(sigs) : sigs[i] \in NotifiedSignals
    /\ qi \in 0..Len(QuitEntries)
    /\ idx \in 0..(Len(receivers) + 1)
    /\ cause \in {"none", "stop", "signal"}
    /\ bothPending \in BOOLEAN
    /\ panicked \in BOOLEAN
    /\ nStops \in 0..MaxStops
    /\ nSignals \in 0..MaxSignals
    /\ srv \in {"none", "unbuilt", "failed", "built"}
    /\ runPc \in {"idle", "http", "grpc", "loop", "gstop", "returned"}
    /\ httpTask \in {"unstarted", "serving", "exited"}
    /\ grpcTask \in {"unstarted", "serving", "exited"}
    /\ httpSrv \in {"up", "shutdown"}
    /\ grpcSrv \in {"up", "draining", "stopped"}
    /\ httpInflight \in 0..MaxInflight
    /\ rpcInflight \in 0..MaxInflight
    /\ shutPc \in {"idle", "drain", "grpcstop", "done"}
    /\ drainResult \in {"none", "nil", "timeout", "err"}
    /\ stopFirst \in BOOLEAN
    /\ termSent \in BOOLEAN
    /\ timeout \in 0..MaxTimeout
    /\ elapsed \in 0..timeout
    /\ grpcStopCalled \in BOOLEAN

\* ------------------------------------------------------------ properties
Range(f) == {f[i] : i \in DOMAIN f}

Last(q) == q[Len(q)]

\* s repeated n times.
RECURSIVE Repeat(_, _)
Repeat(q, n) == IF n = 0 THEN <<>> ELSE q \o Repeat(q, n - 1)

\* How many entries of q are in S.
CountIn(q, S) == Cardinality({i \in DOMAIN q : q[i] \in S})

\* The SIGQUITs Loop has taken from sigs.
NumQuits == CountIn(recvd, {SIGQUIT})

\* Loop has taken a SIGINT or a SIGTERM from sigs.
GotTerm == CountIn(recvd, {SIGINT, SIGTERM}) > 0

\* The subsystems stopped so far, in the order of the calls.
Stopped == [i \in DOMAIN stopCalls |-> stopCalls[i][1]]

IsExitNotice(e) == e \in {StopNotice, TermNotice}

IsDumpEntry(e) == ~IsExitNotice(e)

\* C1: calling Stop any number of times, from any callers, directly or
\* through Server.Stop, never panics: the second and later calls are no-ops.
C1_StopNeverPanics == ~panicked

\* C2: on SIGINT or SIGTERM Loop calls Stop on the receivers in registration
\* order, whatever the calls return, and has called it on every one of them
\* when it returns.
C2_FanOutInOrder ==
    /\ Len(Stopped) <= Len(receivers)
    /\ Stopped = SubSeq(receivers, 1, Len(Stopped))
    /\ (pc = "returned" /\ cause = "signal") => Stopped = receivers

C2_Witness ==
    /\ pc = "returned" /\ cause = "signal"
    /\ Len(receivers) = 2 /\ receivers[1] # receivers[2]
    /\ stopCalls[1][2] = "err"

\* C3: a SIGQUIT never makes Loop return: Loop takes it into the dump, and
\* from the dump it goes nowhere but back to the select.
C3_QuitNonTerminal ==
    [][ /\ (pc = "select" /\ recvd' # recvd /\ Last(recvd') = SIGQUIT)
            => pc' = "dump"
        /\ pc = "dump" => pc' \in {"dump", "select"} ]_vars

C3_Witness ==
    /\ pc = "select" /\ qi = 0
    /\ Len(recvd) >= 2 /\ Range(recvd) = {SIGQUIT}

\* C4 as stated: each SIGQUIT handled adds exactly three entries to the log:
\* begin marker, dump body, end marker.
C4_ThreeEntriesPerQuit ==
    pc # "dump" =>
        SelectSeq(log, IsDumpEntry)
            = Repeat(<<DumpStart, DumpBody, DumpEnd>>, NumQuits)

\* C4, amended: each SIGQUIT handled adds exactly four entries to the log:
\* the receipt notice, begin marker, dump body, end marker; part-way through
\* the dump the log holds the first of them.
C4_FourEntriesPerQuit ==
    LET block == <<QuitNotice, DumpStart, DumpBody, DumpEnd>>
        dumps == SelectSeq(log, IsDumpEntry)
    IN  IF pc = "dump"
        THEN dumps = Repeat(block, NumQuits - 1) \o SubSeq(block, 1, qi - 1)
        ELSE dumps = Repeat(block, NumQuits)

C4_Witness ==
    /\ pc = "select" /\ qi = 0
    /\ NumQuits >= 2
    /\ Len(log) = 8

\* C5: Loop returns for exactly one reason.  The log never holds both the
\* Stop notice and the SIGINT/SIGTERM notice, nor one of them twice; when
\* Loop has returned it holds one, and that one's cause has happened.
C5_OneExitCause ==
    /\ CountIn(log, {StopNotice, TermNotice}) <= 1
    /\ pc = "returned" =>
          /\ CountIn(log, {StopNotice, TermNotice}) = 1
          /\ StopNotice \in Range(log) => (quit = "closed" /\ cause = "stop")
          /\ TermNotice \in Range(log) => (GotTerm /\ cause = "signal")

C5_Witness ==
    /\ pc = "returned"
    /\ bothPending
    /\ cause = "signal"

\* C6: when Loop returns because h.quit was closed it has logged the Stop
\* notice and called Stop on no receiver; it returns from that case at once.
C6_StopSkipsFanOut ==
    cause = "stop" =>
        /\ pc = "returned"
        /\ StopNotice \in Range(log)
        /\ stopCalls = <<>>

C6_Witness ==
    /\ pc = "returned" /\ cause = "stop"
    /\ Len(receivers) = 2

\* C7: once Server.Stop has been called after Server.Run, Run returns.
C7_RunReturnsAfterStop == stopAfterRun ~> (runPc = "returned")

\* Run does return after Stop in every behaviour in which no goroutine
\* panics: the double close of h.quit is the only thing that keeps it.
RunReturnsUnlessPanicked == stopAfterRun ~> (runPc = "returned" \/ panicked)

\* C8: Run returns only after a SIGINT or SIGTERM was received or Stop was
\* called: a SIGQUIT, the end of a Serve goroutine and Shutdown do not make
\* it return.
C8_RunReturnsOnlyOnStopOrTerm ==
    runPc = "returned" => (GotTerm \/ quit = "closed")

C8_Witness ==
    /\ runPc = "loop" /\ pc = "select"
    /\ NumQuits >= 1
    /\ httpTask = "exited" /\ grpcTask = "exited"
    /\ shutPc = "done"
    /\ quit = "open" /\ ~GotTerm

\* C9: Run starts both Serve goroutines before it enters Loop, and the
\* graceful stop of the gRPC server runs after Loop has returned and is over
\* before Run returns.
C9_RunOrder ==
    /\ (srv = "built" /\ pc # "idle")
          => (httpTask # "unstarted" /\ grpcTask # "unstarted")
    /\ runPc \in {"gstop", "returned"} => pc = "returned"
    /\ grpcSrv = "draining" => (pc = "returned" /\ runPc = "gstop")
    /\ runPc = "returned" => grpcSrv = "stopped"

C9_Witness ==
    /\ runPc = "returned"
    /\ shutPc = "idle"
    /\ httpTask = "serving" /\ grpcTask = "serving"

\* C10: Shutdown calls s.GRPC.Stop() whatever the HTTP drain returned, and
\* returns nothing to its caller.
C10_ShutdownDoesBoth ==
    /\ shutPc \in {"idle", "drain", "grpcstop", "done"}
    /\ drainResult # "none" => shutPc \in {"grpcstop", "done"}
    /\ shutPc = "done" => (drainResult # "none" /\ grpcStopCalled)

C10_Witness ==
    /\ shutPc = "done"
    /\ drainResult = "timeout"
    /\ grpcStopCalled

\* C11: when New fails, no listener it bound is left open.
C11_FailedNewLeavesNothingOpen ==
    srv = "failed" => (httpListener # "open" /\ grpcListener # "open")

\* C12: a Server is returned only with both listeners bound; when the gRPC
\* bind fails after the HTTP bind succeeded New fails, and nothing is ever
\* run on a Server that was not returned.
C12_ServerOnlyWithBothBound ==
    /\ srv = "built" => (httpListener # "none" /\ grpcListener # "none")
    /\ (srv \in {"built", "failed"} /\ grpcListener = "none") => srv = "failed"
    /\ srv = "failed" =>
          (runPc = "idle" /\ shutPc = "idle" /\ pc = "idle" /\ quit = "open")

C12_Witness ==
    /\ srv = "failed"
    /\ httpListener = "open" /\ grpcListener = "none"

\* C13: on a built Server, in every state of Run (never called, blocked in
\* Loop, returned), Shutdown can be called, and a Shutdown that is under way
\* is never stuck: it can take its next step, or time can pass towards the
\* deadline of its drain.
C13_ShutdownNeverBlocked ==
    (Alive /\ srv = "built") =>
        /\ shutPc = "idle" => ENABLED Shutdown
        /\ shutPc \in {"drain", "grpcstop"} => ENABLED (Shutdown \/ Tick)

C13_Witness ==
    /\ shutPc = "done"
    /\ runPc = "loop" /\ pc = "select"

\* Shutdown also ends when Run was never called.
ShutdownWithoutRun == shutPc = "done" /\ runPc = "idle"

\* A Shutdown under way ends in every behaviour in which no goroutine
\* panics.
ShutdownEndsUnlessPanicked ==
    (shutPc # "idle") ~> (shutPc = "done" \/ panicked)

\* C14: Shutdown waits in the HTTP drain no longer than the timeout, however
\* many requests are in flight: at the deadline the drain returns with the
\* requests still in flight, and Shutdown goes on.
C14_ShutdownBounded ==
    /\ elapsed <= timeout
    /\ (Alive /\ srv = "built" /\ shutPc = "drain" /\ elapsed = timeout)
          => ENABLED Shutdown
    /\ drainResult = "timeout" => elapsed = timeout

C14_Witness ==
    /\ shutPc = "done"
    /\ drainResult = "timeout"
    /\ timeout = MaxTimeout /\ elapsed = timeout
    /\ httpInflight = MaxInflight

\* C15 as stated: the gRPC force-stop is not delayed by the HTTP drain: no
\* time of the drain passes before s.GRPC.Stop() is called.
C15_RPCStopNotDelayed ==
    ~grpcStopCalled => elapsed = 0

\* C15, amended: s.GRPC.Stop() is called only after the HTTP drain has
\* returned, so at most the timeout after Shutdown began; once reached it
\* waits for no RPC in flight and leaves none.
C15_RPCStopAfterDrain ==
    /\ grpcStopCalled => drainResult # "none"
    /\ ~grpcStopCalled => elapsed <= timeout
    /\ (Alive /\ srv = "built" /\ shutPc = "grpcstop") => ENABLED Shutdown
    /\ grpcStopCalled => (grpcSrv = "stopped" /\ rpcInflight = 0)

C15_Witness ==
    /\ grpcStopCalled
    /\ elapsed > 0
    /\ grpcTask = "serving"

\* C16: no termination signal is dropped: once a SIGINT or SIGTERM has been
\* delivered to a subscribed Loop that is not stopped, Loop runs the fan-out
\* and returns, whatever SIGQUITs are delivered around it.
C16_NoTermSignalDropped ==
    (termSent /\ quit = "open")
        ~> ((pc = "returned" /\ cause = "signal") \/ quit = "closed")

\* The part of C16 that holds: Loop has subscribed before it waits.
SubscribedBeforeWait == pc # "idle" => subscribed

StopsOnlyInFanOut ==
    /\ stopCalls # <<>> => (GotTerm /\ cause = "signal")
    /\ pc = "dump" => stopCalls = <<>>
    /\ nStops = 0 => quit = "open"
    /\ pc = "returned" => Len(stopCalls) \in {0, Len(receivers)}

\* C18 as stated: each registered subsystem's Stop is called at most once.
C18_EachSubsystemStoppedOnce ==
    /\ \A sub \in Subsystems : CountIn(Stopped, {sub}) <= 1
    /\ StopsOnlyInFanOut

\* C18, amended: Stop is called at most once for each registration: a
\* subsystem registered k times is stopped at most k times.
C18_EachRegistrationStoppedOnce ==
    /\ \A sub \in Subsystems :
          CountIn(Stopped, {sub}) <= CountIn(receivers, {sub})
    /\ StopsOnlyInFanOut

C18_Witness ==
    /\ pc = "returned" /\ cause = "signal"
    /\ receivers = <<1, 1>>
    /\ Len(stopCalls) = 2
    /\ NumQuits >= 1

\* C19: Run never stops the HTTP server.  No step of Run shuts it down, ends
\* its Serve goroutine or closes its listener; it is shut down only once
\* Shutdown has begun; the gRPC server is stopped when Run has returned.
HTTPOnlyStoppedByShutdown ==
    /\ httpSrv = "shutdown" => shutPc # "idle"
    /\ runPc = "returned" => grpcSrv = "stopped"
    /\ (Alive /\ runPc = "returned" /\ shutPc = "idle" /\ httpTask = "serving"
          /\ httpInflight < MaxInflight) => ENABLED HTTPAccept

C19_RunLeavesHTTPServing ==
    [][ /\ HTTPOnlyStoppedByShutdown
        /\ HTTPOnlyStoppedByShutdown'
        /\ runPc' # runPc =>
              /\ httpSrv' = httpSrv
              /\ httpListener' = httpListener
              /\ httpTask = "serving" => httpTask' = "serving" ]_vars

C19_Witness ==
    /\ runPc = "returned"
    /\ shutPc = "idle"
    /\ httpTask = "serving" /\ httpSrv = "up" /\ httpListener = "open"
    /\ httpInflight = MaxInflight

====
